---- MODULE Spec2Model ----
(***************************************************************************)
(* Model of apps/desktop-solid/src-tauri/src/editor_instance.rs:           *)
(* EditorInstance (session state behind a tokio Mutex, playback start,     *)
(* dispose, the playback listener task, try_render_frame and its spawned   *)
(* task) and create_frames_ws (the websocket relay of rendered frames).    *)
(***************************************************************************)
EXTENDS Naturals, Sequences, FiniteSets

\* ------------------------------------------------------------------ bounds
MaxCalls == 2       \* calls made on the session: start_playback, dispose
                    \* and try_render_frame together
MaxEvents == 2      \* events the playback handles emit, all together
MaxFrame == 2       \* frame numbers carried by Frame events: 1..MaxFrame
MaxViewers == 2     \* websocket connections
MaxChunks == 3      \* chunks the renderer pushes on the outbound channel

Starts == 1..MaxCalls
Handles == Starts   \* the handle built by start_playback call c is handle c
Disposes == 1..MaxCalls
Renders == 1..MaxCalls
Viewers == 1..MaxViewers

\* ------------------------------------------------------------------- state
VARIABLES
  playhead_position,   \* EditorState.playhead_position
  playback_task,       \* EditorState.playback_task: 0 is None, h is Some(handle h)
  state_lock,          \* holder of EditorInstance.state (tokio Mutex)
  spc,                 \* position of each start_playback call
  start_frame_number,  \* start_playback's local, given to Playback
  prev,                \* start_playback's local: the displaced handle (0: None)
  dpc,                 \* position of each dispose call
  lpc,                 \* position of the listener task of each handle
  frame_number,        \* the listener's Frame(frame_number) being applied
  events,              \* per handle: events emitted and not yet received
  emitted_n,           \* number of events the handles have emitted so far
  emitted,             \* per handle: the events it has emitted, in order
  received,            \* per handle: the events receive_event() returned, in order
  stops,               \* per handle: stop() calls issued by this file
  on_state_change,     \* the callback's invocations: what it observed, by whom
  rendering,           \* EditorInstance.rendering (AtomicBool)
  camera_decoder,      \* EditorInstance.camera_decoder is Some
  camera_frame,        \* per render task: the camera frame it got is Some
  rpc,                 \* position of each try_render_frame call and its task
  frame_rx,            \* chunks on the unbounded channel, oldest first
  pushed,              \* number of chunks pushed so far (chunk ids 1..pushed)
  rx_lock,             \* holder of the RouterState Mutex (0: free)
  vpc,                 \* position of each connection's handle_socket
  chunk,               \* the chunk a connection is sending
  delivered,           \* per connection: the binary messages sent, in order
  pushed_at_connect    \* per connection: chunks pushed before it was made

stateVars == <<playhead_position, playback_task, state_lock, spc,
               start_frame_number, prev, dpc, lpc, frame_number, events,
               emitted_n, emitted, received, stops, on_state_change>>
renderVars == <<rendering, camera_decoder, camera_frame, rpc>>
streamVars == <<frame_rx, pushed, rx_lock, vpc, chunk, delivered,
                pushed_at_connect>>
vars == <<stateVars, renderVars, streamVars>>

\* The state Mutex: free, or held by a start_playback call, a dispose call or
\* a listener inside modify_and_emit_state.
Free == <<"free", 0>>
ByStart(c) == <<"start_playback", c>>
ByDispose(d) == <<"dispose", d>>
ByListener(h) == <<"modify_and_emit_state", h>>

\* playback::PlaybackEvent
Start == [kind |-> "Start", n |-> 0]
Stop == [kind |-> "Stop", n |-> 0]
Frame(n) == [kind |-> "Frame", n |-> n]
PlaybackEvent == {Start, Stop} \cup {Frame(n) : n \in 1..MaxFrame}

\* Calls of one kind are numbered in the order they are made.
InOrder(pc, i) == IF i = 1 THEN TRUE ELSE pc[i - 1] # "idle"

\* The number of calls made so far.
Made(pc) == Cardinality({i \in DOMAIN pc : pc[i] # "idle"})
Calls == Made(spc) + Made(dpc) + Made(rpc)

\* What the callback is handed: &EditorState.
EditorState == [playhead_position |-> playhead_position,
                playback_task |-> playback_task]

\* A session whose cursor does not start at 0.
InitState_CursorOne ==
  /\ playhead_position = 1
  /\ playback_task = 0
  /\ state_lock = Free
  /\ spc = [c \in Starts |-> "idle"]
  /\ start_frame_number = [c \in Starts |-> 0]
  /\ prev = [c \in Starts |-> 0]
  /\ dpc = [d \in Disposes |-> "idle"]
  /\ lpc = [h \in Handles |-> "none"]
  /\ frame_number = [h \in Handles |-> 0]
  /\ events = [h \in Handles |-> <<>>]
  /\ emitted_n = 0
  /\ emitted = [h \in Handles |-> <<>>]
  /\ received = [h \in Handles |-> <<>>]
  /\ stops = [h \in Handles |-> 0]
  /\ on_state_change = <<>>

\* ---------------------------------------------------- EditorInstance::new
InitState ==
  /\ playhead_position = 0
  /\ playback_task = 0
  /\ state_lock = Free
  /\ spc = [c \in Starts |-> "idle"]
  /\ start_frame_number = [c \in Starts |-> 0]
  /\ prev = [c \in Starts |-> 0]
  /\ dpc = [d \in Disposes |-> "idle"]
  /\ lpc = [h \in Handles |-> "none"]
  /\ frame_number = [h \in Handles |-> 0]
  /\ events = [h \in Handles |-> <<>>]
  /\ emitted_n = 0
  /\ emitted = [h \in Handles |-> <<>>]
  /\ received = [h \in Handles |-> <<>>]
  /\ stops = [h \in Handles |-> 0]
  /\ on_state_change = <<>>

InitRender ==
  /\ rendering = FALSE
  /\ camera_decoder \in BOOLEAN
  /\ camera_frame = [r \in Renders |-> FALSE]
  /\ rpc = [r \in Renders |-> "idle"]

InitStream ==
  /\ frame_rx = <<>>
  /\ pushed = 0
  /\ rx_lock = 0
  /\ vpc = [v \in Viewers |-> "idle"]
  /\ chunk = [v \in Viewers |-> 0]
  /\ delivered = [v \in Viewers |-> <<>>]
  /\ pushed_at_connect = [v \in Viewers |-> 0]

Init == InitState /\ InitRender /\ InitStream

\* ------------------------------------------------ EditorInstance::dispose
\* The call is made and waits in self.state.lock().await.
DisposeCall(d) ==
  /\ dpc[d] = "idle"
  /\ InOrder(dpc, d)
  /\ Calls < MaxCalls
  /\ dpc' = [dpc EXCEPT ![d] = "lock"]
  /\ UNCHANGED <<playhead_position, playback_task, state_lock, spc,
                 start_frame_number, prev, lpc, frame_number, events,
                 emitted_n, received, stops, on_state_change>>
  /\ UNCHANGED emitted
  /\ UNCHANGED <<renderVars, streamVars>>

\* A dispose that takes the state without waiting for the lock.
DisposeLock_NoWait(d) ==
  /\ dpc[d] = "lock"
  /\ state_lock' = ByDispose(d)
  /\ dpc' = [dpc EXCEPT ![d] = "held"]
  /\ UNCHANGED <<playhead_position, playback_task, spc, start_frame_number,
                 prev, lpc, frame_number, events, emitted_n, received, stops,
                 on_state_change>>
  /\ UNCHANGED emitted
  /\ UNCHANGED <<renderVars, streamVars>>

\* lock().await returns the guard.
DisposeLock(d) ==
  /\ dpc[d] = "lock"
  /\ state_lock = Free
  /\ state_lock' = ByDispose(d)
  /\ dpc' = [dpc EXCEPT ![d] = "held"]
  /\ UNCHANGED <<playhead_position, playback_task, spc, start_frame_number,
                 prev, lpc, frame_number, events, emitted_n, received, stops,
                 on_state_change>>
  /\ UNCHANGED emitted
  /\ UNCHANGED <<renderVars, streamVars>>

\* A dispose that also puts the cursor back to 0.
DisposeTake_ResetsCursor(d) ==
  /\ dpc[d] = "held"
  /\ playback_task' = 0
  /\ playhead_position' = 0
  /\ stops' = IF playback_task # 0
              THEN [stops EXCEPT ![playback_task] = @ + 1]
              ELSE stops
  /\ state_lock' = Free
  /\ dpc' = [dpc EXCEPT ![d] = "done"]
  /\ UNCHANGED <<spc, start_frame_number, prev, lpc,
                 frame_number, events, emitted_n, received, on_state_change>>
  /\ UNCHANGED emitted
  /\ UNCHANGED <<renderVars, streamVars>>

\* dispose that stops the handle and leaves it in the slot (as_ref() for
\* take()).
DisposeTake_NoTake(d) ==
  /\ dpc[d] = "held"
  /\ stops' = IF playback_task # 0
              THEN [stops EXCEPT ![playback_task] = @ + 1]
              ELSE stops
  /\ state_lock' = Free
  /\ dpc' = [dpc EXCEPT ![d] = "done"]
  /\ UNCHANGED <<playhead_position, playback_task, spc, start_frame_number,
                 prev, lpc, frame_number, events, emitted_n, received,
                 on_state_change>>
  /\ UNCHANGED emitted
  /\ UNCHANGED <<renderVars, streamVars>>

\* if let Some(handle) = state.playback_task.take() { handle.stop() }, then
\* the guard is dropped at the end of the function.
DisposeTake(d) ==
  /\ dpc[d] = "held"
  /\ playback_task' = 0
  /\ stops' = IF playback_task # 0
              THEN [stops EXCEPT ![playback_task] = @ + 1]
              ELSE stops
  /\ state_lock' = Free
  /\ dpc' = [dpc EXCEPT ![d] = "done"]
  /\ UNCHANGED <<playhead_position, spc, start_frame_number, prev, lpc,
                 frame_number, events, emitted_n, received, on_state_change>>
  /\ UNCHANGED emitted
  /\ UNCHANGED <<renderVars, streamVars>>

\* ----------------------------------------- EditorInstance::start_playback
\* start_playback that goes on when try_lock fails.
StartPlaybackTryLock_NoReturn(c) ==
  /\ spc[c] = "idle"
  /\ InOrder(spc, c)
  /\ Calls < MaxCalls
  /\ state_lock' = IF state_lock = Free THEN ByStart(c) ELSE state_lock
  /\ start_frame_number' =
       [start_frame_number EXCEPT ![c] = playhead_position]
  /\ spc' = [spc EXCEPT ![c] = "constructing"]
  /\ UNCHANGED <<playhead_position, playback_task, prev, dpc, lpc,
                 frame_number, events, emitted_n, received, stops,
                 on_state_change>>
  /\ UNCHANGED emitted
  /\ UNCHANGED <<renderVars, streamVars>>

\* let Ok(mut state) = self.state.try_lock() else { return };
\* let start_frame_number = state.playhead_position;
StartPlaybackTryLock(c) ==
  /\ spc[c] = "idle"
  /\ InOrder(spc, c)
  /\ Calls < MaxCalls
  /\ IF state_lock = Free
     THEN /\ state_lock' = ByStart(c)
          /\ start_frame_number' =
               [start_frame_number EXCEPT ![c] = playhead_position]
          /\ spc' = [spc EXCEPT ![c] = "constructing"]
     ELSE /\ spc' = [spc EXCEPT ![c] = "dropped"]
          /\ UNCHANGED <<state_lock, start_frame_number>>
  /\ UNCHANGED <<playhead_position, playback_task, prev, dpc, lpc,
                 frame_number, events, emitted_n, received, stops,
                 on_state_change>>
  /\ UNCHANGED emitted
  /\ UNCHANGED <<renderVars, streamVars>>

\* start_playback that stops the previous handle before it drops the guard.
StartPlaybackInstall_StopUnderLock(c) ==
  /\ spc[c] = "constructing"
  /\ prev' = [prev EXCEPT ![c] = playback_task]
  /\ stops' = IF playback_task # 0
              THEN [stops EXCEPT ![playback_task] = @ + 1]
              ELSE stops
  /\ playback_task' = c
  /\ state_lock' = Free
  /\ lpc' = [lpc EXCEPT ![c] = "recv"]
  /\ spc' = [spc EXCEPT ![c] = "installed"]
  /\ UNCHANGED <<playhead_position, start_frame_number, dpc,
                 frame_number, events, emitted_n, received,
                 on_state_change>>
  /\ UNCHANGED emitted
  /\ UNCHANGED <<renderVars, streamVars>>

\* Playback { .. }.start().await has returned the handle;
\* let prev = state.playback_task.replace(playback_handle.clone());
\* drop(state); tokio::spawn(async move { loop { .. } }): the listener task
\* of the new handle exists from here on.
StartPlaybackInstall(c) ==
  /\ spc[c] = "constructing"
  /\ prev' = [prev EXCEPT ![c] = playback_task]
  /\ playback_task' = c
  /\ state_lock' = Free
  /\ lpc' = [lpc EXCEPT ![c] = "recv"]
  /\ spc' = [spc EXCEPT ![c] = "installed"]
  /\ UNCHANGED <<playhead_position, start_frame_number, dpc,
                 frame_number, events, emitted_n, received, stops,
                 on_state_change>>
  /\ UNCHANGED emitted
  /\ UNCHANGED <<renderVars, streamVars>>

\* A start_playback that drops the handle it displaced without stop().
StartPlaybackStopPrev_NoStop(c) ==
  /\ spc[c] = "installed"
  /\ prev' = [prev EXCEPT ![c] = 0]
  /\ spc' = [spc EXCEPT ![c] = "done"]
  /\ UNCHANGED <<playhead_position, playback_task, state_lock,
                 start_frame_number, dpc, lpc, frame_number, events,
                 emitted_n, received, stops, on_state_change>>
  /\ UNCHANGED emitted
  /\ UNCHANGED <<renderVars, streamVars>>

\* A stop() that ends the listener task of the handle it stops.
StartPlaybackStopPrev_EndsListener(c) ==
  /\ spc[c] = "installed"
  /\ stops' = IF prev[c] # 0 THEN [stops EXCEPT ![prev[c]] = @ + 1] ELSE stops
  /\ lpc' = IF prev[c] # 0 THEN [lpc EXCEPT ![prev[c]] = "done"] ELSE lpc
  /\ prev' = [prev EXCEPT ![c] = 0]
  /\ spc' = [spc EXCEPT ![c] = "done"]
  /\ UNCHANGED <<playhead_position, playback_task, state_lock,
                 start_frame_number, dpc, frame_number, events,
                 emitted_n, received, on_state_change>>
  /\ UNCHANGED emitted
  /\ UNCHANGED <<renderVars, streamVars>>

\* if let Some(prev) = prev { prev.stop() }; the call returns and its local
\* prev is gone.
StartPlaybackStopPrev(c) ==
  /\ spc[c] = "installed"
  /\ stops' = IF prev[c] # 0 THEN [stops EXCEPT ![prev[c]] = @ + 1] ELSE stops
  /\ prev' = [prev EXCEPT ![c] = 0]
  /\ spc' = [spc EXCEPT ![c] = "done"]
  /\ UNCHANGED <<playhead_position, playback_task, state_lock,
                 start_frame_number, dpc, lpc, frame_number, events,
                 emitted_n, received, on_state_change>>
  /\ UNCHANGED emitted
  /\ UNCHANGED <<renderVars, streamVars>>

\* -------------------------------------------------- the playback instance
\* A started playback emits its next event; Stop is the last one.
Started(h) == spc[h] \in {"installed", "done"}
Stopped(h) == \E i \in 1..Len(received[h]) : received[h][i] = Stop
EmittedStop(h) ==
  \/ Stopped(h)
  \/ \E i \in 1..Len(events[h]) : events[h][i] = Stop

PlaybackEmit(h, ev) ==
  /\ Started(h)
  /\ ~EmittedStop(h)
  /\ emitted_n < MaxEvents
  /\ events' = [events EXCEPT ![h] = Append(@, ev)]
  /\ emitted_n' = emitted_n + 1
  /\ emitted' = [emitted EXCEPT ![h] = Append(@, ev)]
  /\ UNCHANGED <<playhead_position, playback_task, state_lock, spc,
                 start_frame_number, prev, dpc, lpc, frame_number, received,
                 stops, on_state_change>>
  /\ UNCHANGED <<renderVars, streamVars>>

\* ------------------------------------------------------ the listener task
\* A listener that takes the newest pending event instead of the oldest.
ListenerReceive_Newest(h) ==
  /\ lpc[h] = "recv"
  /\ events[h] # <<>>
  /\ LET event == events[h][Len(events[h])] IN
       /\ events' = [events EXCEPT ![h] = SubSeq(@, 1, Len(@) - 1)]
       /\ received' = [received EXCEPT ![h] = Append(@, event)]
       /\ lpc' = [lpc EXCEPT ![h] =
                    CASE event.kind = "Start" -> "recv"
                      [] event.kind = "Frame" -> "lock"
                      [] event.kind = "Stop" -> "done"]
       /\ frame_number' = [frame_number EXCEPT ![h] =
                             IF event.kind = "Frame" THEN event.n ELSE @]
  /\ UNCHANGED <<playhead_position, playback_task, state_lock, spc,
                 start_frame_number, prev, dpc, emitted_n, stops,
                 on_state_change>>
  /\ UNCHANGED emitted
  /\ UNCHANGED <<renderVars, streamVars>>

\* let event = *handle.receive_event().await; match event { .. }
ListenerReceive(h) ==
  /\ lpc[h] = "recv"
  /\ events[h] # <<>>
  /\ LET event == Head(events[h]) IN
       /\ events' = [events EXCEPT ![h] = Tail(@)]
       /\ received' = [received EXCEPT ![h] = Append(@, event)]
       /\ lpc' = [lpc EXCEPT ![h] =
                    CASE event.kind = "Start" -> "recv"
                      [] event.kind = "Frame" -> "lock"
                      [] event.kind = "Stop" -> "done"]
       /\ frame_number' = [frame_number EXCEPT ![h] =
                             IF event.kind = "Frame" THEN event.n ELSE @]
  /\ UNCHANGED <<playhead_position, playback_task, state_lock, spc,
                 start_frame_number, prev, dpc, emitted_n, stops,
                 on_state_change>>
  /\ UNCHANGED emitted
  /\ UNCHANGED <<renderVars, streamVars>>

\* modify_and_emit_state that does not run the closure.
ModifyAndEmitModify_NoModify(h) ==
  /\ lpc[h] = "lock"
  /\ state_lock = Free
  /\ state_lock' = ByListener(h)
  /\ lpc' = [lpc EXCEPT ![h] = "emit"]
  /\ UNCHANGED <<playhead_position, playback_task, spc, start_frame_number,
                 prev, dpc, frame_number, events, emitted_n, received, stops,
                 on_state_change>>
  /\ UNCHANGED emitted
  /\ UNCHANGED <<renderVars, streamVars>>

\* modify_and_emit_state that writes the cursor without taking the lock.
ModifyAndEmitModify_NoLock(h) ==
  /\ lpc[h] = "lock"
  /\ playhead_position' = frame_number[h]
  /\ lpc' = [lpc EXCEPT ![h] = "emit"]
  /\ UNCHANGED <<playback_task, state_lock, spc, start_frame_number, prev,
                 dpc, frame_number, events, emitted_n, received, stops,
                 on_state_change>>
  /\ UNCHANGED emitted
  /\ UNCHANGED <<renderVars, streamVars>>

\* modify_and_emit_state: let mut state = self.state.lock().await;
\* modify(&mut state), the closure being state.playhead_position = frame_number
ModifyAndEmitModify(h) ==
  /\ lpc[h] = "lock"
  /\ state_lock = Free
  /\ state_lock' = ByListener(h)
  /\ playhead_position' = frame_number[h]
  /\ lpc' = [lpc EXCEPT ![h] = "emit"]
  /\ UNCHANGED <<playback_task, spc, start_frame_number, prev, dpc,
                 frame_number, events, emitted_n, received, stops,
                 on_state_change>>
  /\ UNCHANGED emitted
  /\ UNCHANGED <<renderVars, streamVars>>

\* modify_and_emit_state that does not call the callback.
ModifyAndEmitEmit_NoEmit(h) ==
  /\ lpc[h] = "emit"
  /\ lpc' = [lpc EXCEPT ![h] = "unlock"]
  /\ UNCHANGED <<playhead_position, playback_task, state_lock, spc,
                 start_frame_number, prev, dpc, frame_number, events,
                 emitted_n, received, stops, on_state_change>>
  /\ UNCHANGED emitted
  /\ UNCHANGED <<renderVars, streamVars>>

\* (self.on_state_change)(&state);
ModifyAndEmitEmit(h) ==
  /\ lpc[h] = "emit"
  /\ on_state_change' =
       Append(on_state_change, [by |-> h, state |-> EditorState])
  /\ lpc' = [lpc EXCEPT ![h] = "unlock"]
  /\ UNCHANGED <<playhead_position, playback_task, state_lock, spc,
                 start_frame_number, prev, dpc, frame_number, events,
                 emitted_n, received, stops>>
  /\ UNCHANGED emitted
  /\ UNCHANGED <<renderVars, streamVars>>

\* modify_and_emit_state that returns without dropping the guard.
ModifyAndEmitUnlock_KeepsLock(h) ==
  /\ lpc[h] = "unlock"
  /\ frame_number' = [frame_number EXCEPT ![h] = 0]
  /\ lpc' = [lpc EXCEPT ![h] = "recv"]
  /\ UNCHANGED <<playhead_position, playback_task, state_lock, spc,
                 start_frame_number, prev, dpc, events, emitted_n, received,
                 stops, on_state_change>>
  /\ UNCHANGED emitted
  /\ UNCHANGED <<renderVars, streamVars>>

\* the guard is dropped when modify_and_emit_state returns; the match arm
\* ends, and with it frame_number
ModifyAndEmitUnlock(h) ==
  /\ lpc[h] = "unlock"
  /\ state_lock' = Free
  /\ frame_number' = [frame_number EXCEPT ![h] = 0]
  /\ lpc' = [lpc EXCEPT ![h] = "recv"]
  /\ UNCHANGED <<playhead_position, playback_task, spc, start_frame_number,
                 prev, dpc, events, emitted_n, received, stops,
                 on_state_change>>
  /\ UNCHANGED emitted
  /\ UNCHANGED <<renderVars, streamVars>>

\* --------------------------------------- EditorInstance::try_render_frame
\* if self.rendering.load(Relaxed) { return }  ...  tokio::spawn(task)
TryRenderFrame(r) ==
  /\ rpc[r] = "idle"
  /\ InOrder(rpc, r)
  /\ Calls < MaxCalls
  /\ rpc' = [rpc EXCEPT ![r] = IF rendering THEN "dropped" ELSE "spawned"]
  /\ UNCHANGED <<rendering, camera_decoder>>
  /\ UNCHANGED camera_frame
  /\ UNCHANGED <<stateVars, streamVars>>

\* The spawned task starts: this.rendering.store(true, Relaxed); and asks the
\* screen decoder for the frame.
RenderTaskStart(r) ==
  /\ rpc[r] = "spawned"
  /\ rendering' = TRUE
  /\ rpc' = [rpc EXCEPT ![r] = "screen"]
  /\ UNCHANGED camera_decoder
  /\ UNCHANGED camera_frame
  /\ UNCHANGED <<stateVars, streamVars>>

\* screen_decoder.get_frame(frame_number).await answers: None returns from the
\* task; Some goes on to the camera decoder when there is one, and otherwise
\* to renderer.render_frame(..).
RenderTaskScreen(r, some) ==
  /\ rpc[r] = "screen"
  /\ rpc' = [rpc EXCEPT ![r] =
               IF ~some THEN "miss"
               ELSE IF camera_decoder THEN "camera" ELSE "render"]
  /\ UNCHANGED <<rendering, camera_decoder>>
  /\ UNCHANGED camera_frame
  /\ UNCHANGED <<stateVars, streamVars>>

\* A task that returns when the camera decoder has no frame, as it does for
\* the screen decoder.
RenderTaskCamera_ReturnOnNone(r, some) ==
  /\ rpc[r] = "camera"
  /\ rpc' = [rpc EXCEPT ![r] = IF some THEN "render" ELSE "miss"]
  /\ UNCHANGED <<rendering, camera_decoder>>
  /\ camera_frame' = [camera_frame EXCEPT ![r] = some]
  /\ UNCHANGED <<stateVars, streamVars>>

\* camera_decoder.get_frame(frame_number).await answers (Some or None); the
\* task calls renderer.render_frame(.., camera_frame, ..).
RenderTaskCamera(r, some) ==
  /\ rpc[r] = "camera"
  /\ rpc' = [rpc EXCEPT ![r] = "render"]
  /\ UNCHANGED <<rendering, camera_decoder>>
  /\ camera_frame' = [camera_frame EXCEPT ![r] = some]
  /\ UNCHANGED <<stateVars, streamVars>>

\* A render task that reports the session state when the frame is rendered.
RenderTaskFinish_Notifies(r) ==
  /\ rpc[r] = "render"
  /\ rendering' = FALSE
  /\ rpc' = [rpc EXCEPT ![r] = "done"]
  /\ on_state_change' =
       Append(on_state_change, [by |-> 0, state |-> EditorState])
  /\ UNCHANGED <<camera_decoder, camera_frame>>
  /\ UNCHANGED <<playhead_position, playback_task, state_lock, spc,
                 start_frame_number, prev, dpc, lpc, frame_number, events,
                 emitted_n, emitted, received, stops>>
  /\ UNCHANGED streamVars

\* render_frame(..).await returns; this.rendering.store(false, Relaxed);
RenderTaskFinish(r) ==
  /\ rpc[r] = "render"
  /\ rendering' = FALSE
  /\ rpc' = [rpc EXCEPT ![r] = "done"]
  /\ UNCHANGED camera_decoder
  /\ UNCHANGED camera_frame
  /\ UNCHANGED <<stateVars, streamVars>>

\* ------------------------------------------------------- create_frames_ws
\* The renderer pushes one chunk on frame_tx.
RendererPush ==
  /\ pushed < MaxChunks
  /\ pushed' = pushed + 1
  /\ frame_rx' = Append(frame_rx, pushed + 1)
  /\ UNCHANGED <<rx_lock, vpc, chunk, delivered>>
  /\ UNCHANGED pushed_at_connect
  /\ UNCHANGED <<stateVars, renderVars>>

\* ws_handler: the upgrade runs handle_socket, which waits in
\* state.lock().await.
WsHandler(v) ==
  /\ vpc[v] = "idle"
  /\ InOrder(vpc, v)
  /\ vpc' = [vpc EXCEPT ![v] = "lock"]
  /\ pushed_at_connect' = [pushed_at_connect EXCEPT ![v] = pushed]
  /\ UNCHANGED <<frame_rx, pushed, rx_lock, chunk, delivered>>
  /\ UNCHANGED <<stateVars, renderVars>>

\* handle_socket that does not wait for the receiver's lock.
HandleSocketLock_NoWait(v) ==
  /\ vpc[v] = "lock"
  /\ rx_lock' = v
  /\ vpc' = [vpc EXCEPT ![v] = "select"]
  /\ UNCHANGED <<frame_rx, pushed, chunk, delivered>>
  /\ UNCHANGED pushed_at_connect
  /\ UNCHANGED <<stateVars, renderVars>>

\* let mut rx = state.lock().await;
HandleSocketLock(v) ==
  /\ vpc[v] = "lock"
  /\ rx_lock = 0
  /\ rx_lock' = v
  /\ vpc' = [vpc EXCEPT ![v] = "select"]
  /\ UNCHANGED <<frame_rx, pushed, chunk, delivered>>
  /\ UNCHANGED pushed_at_connect
  /\ UNCHANGED <<stateVars, renderVars>>

\* select!: _ = socket.recv() => break; the guard is dropped on return.
HandleSocketBreak(v) ==
  /\ vpc[v] = "select"
  /\ rx_lock' = 0
  /\ vpc' = [vpc EXCEPT ![v] = "closed"]
  /\ UNCHANGED <<frame_rx, pushed, chunk, delivered>>
  /\ UNCHANGED pushed_at_connect
  /\ UNCHANGED <<stateVars, renderVars>>

\* A receive that leaves the chunk on the channel.
HandleSocketRecv_Peek(v) ==
  /\ vpc[v] = "select"
  /\ frame_rx # <<>>
  /\ chunk' = [chunk EXCEPT ![v] = Head(frame_rx)]
  /\ vpc' = [vpc EXCEPT ![v] = "send"]
  /\ UNCHANGED <<frame_rx, pushed, rx_lock, delivered>>
  /\ UNCHANGED pushed_at_connect
  /\ UNCHANGED <<stateVars, renderVars>>

\* select!: msg = rx.recv() => if let Some(chunk) = msg { .. }
HandleSocketRecv(v) ==
  /\ vpc[v] = "select"
  /\ frame_rx # <<>>
  /\ chunk' = [chunk EXCEPT ![v] = Head(frame_rx)]
  /\ frame_rx' = Tail(frame_rx)
  /\ vpc' = [vpc EXCEPT ![v] = "send"]
  /\ UNCHANGED <<pushed, rx_lock, delivered>>
  /\ UNCHANGED pushed_at_connect
  /\ UNCHANGED <<stateVars, renderVars>>

\* socket.send(Message::Binary(chunk)).await.unwrap(): Ok goes round the loop,
\* Err panics the task, which drops the guard.
HandleSocketSend(v, ok) ==
  /\ vpc[v] = "send"
  /\ IF ok
     THEN /\ delivered' = [delivered EXCEPT ![v] = Append(@, chunk[v])]
          /\ vpc' = [vpc EXCEPT ![v] = "select"]
          /\ UNCHANGED rx_lock
     ELSE /\ vpc' = [vpc EXCEPT ![v] = "panicked"]
          /\ rx_lock' = 0
          /\ UNCHANGED delivered
  /\ UNCHANGED <<frame_rx, pushed, chunk>>
  /\ UNCHANGED pushed_at_connect
  /\ UNCHANGED <<stateVars, renderVars>>

\* ---------------------------------------------------------- specifications
NextState ==
  \/ \E d \in Disposes : DisposeCall(d)
  \/ \E d \in Disposes : DisposeLock(d)
  \/ \E d \in Disposes : DisposeTake(d)
  \/ \E c \in Starts : StartPlaybackTryLock(c)
  \/ \E c \in Starts : StartPlaybackInstall(c)
  \/ \E c \in Starts : StartPlaybackStopPrev(c)
  \/ \E h \in Handles, ev \in PlaybackEvent : PlaybackEmit(h, ev)
  \/ \E h \in Handles : ListenerReceive(h)
  \/ \E h \in Handles : ModifyAndEmitModify(h)
  \/ \E h \in Handles : ModifyAndEmitEmit(h)
  \/ \E h \in Handles : ModifyAndEmitUnlock(h)

NextRender ==
  \/ \E r \in Renders : TryRenderFrame(r)
  \/ \E r \in Renders : RenderTaskStart(r)
  \/ \E r \in Renders, some \in BOOLEAN : RenderTaskScreen(r, some)
  \/ \E r \in Renders, some \in BOOLEAN : RenderTaskCamera(r, some)
  \/ \E r \in Renders : RenderTaskFinish(r)

NextStream ==
  \/ RendererPush
  \/ \E v \in Viewers : WsHandler(v)
  \/ \E v \in Viewers : HandleSocketLock(v)
  \/ \E v \in Viewers : HandleSocketBreak(v)
  \/ \E v \in Viewers : HandleSocketRecv(v)
  \/ \E v \in Viewers, ok \in BOOLEAN : HandleSocketSend(v, ok)

\* The session: its state and its render-frame path.
Next == NextState \/ NextRender

Spec == Init /\ [][Next]_vars

\* The session state alone, and the frame stream server.
SpecState == Init /\ [][NextState]_vars
SpecStream == Init /\ [][NextStream]_vars

\* ------------------------------------------------------------ render-frame
\* A render task between its store(true) and the end of its composition.
InFlight(r) == rpc[r] \in {"screen", "camera", "render"}

\* C1: at most one render task is between 'flag set' and 'composition
\* finished' at any time, and a request that arrives while one is, is dropped
\* without spawning a task (it goes no further than "dropped").
C1_AtMostOneInFlight ==
  /\ Cardinality({r \in Renders : InFlight(r)}) <= 1
  /\ \A r \in Renders :
       InFlight(r) =>
         \A q \in Renders : q > r => rpc[q] \in {"idle", "dropped"}

\* C2: once a render task has returned on a screen decoder miss, the
\* in-flight flag is true, and stays true in every later state.
C2_MissWedgesForever ==
  \A r \in Renders : rpc[r] = "miss" => rendering

\* -------------------------------------------------------------- playback
\* A step of start_playback call c.
StartStep(c) == spc'[c] # spc[c]

\* C3: a step of start_playback never leaves the slot empty when it held a
\* handle; the step that changes the slot puts the new handle where the old
\* one was; and stop() goes to the previous handle, and to no other, in a
\* step taken after the new handle was stored and the guard dropped.
C3_StopAfterInstall ==
  [][\A c \in Starts :
       StartStep(c) =>
         /\ playback_task # 0 => playback_task' # 0
         /\ playback_task' # playback_task =>
              /\ playback_task' = c
              /\ prev'[c] = playback_task
         /\ stops' # stops =>
              /\ spc[c] = "installed"
              /\ lpc[c] # "none"
              /\ state_lock # ByStart(c)
              /\ prev[c] # 0
              /\ playback_task # prev[c]
              /\ stops' = [stops EXCEPT ![prev[c]] = @ + 1]]_vars

\* The second start_playback has displaced the first handle and stopped it.
C3_Witness ==
  /\ spc[1] = "done"
  /\ spc[2] = "done"
  /\ playback_task = 2
  /\ stops[1] = 1
  /\ \A d \in Disposes : dpc[d] = "idle"

\* C4: a start_playback call that finds the lock held returns at once and
\* changes nothing; one that finds it free takes it, and on its way out
\* installs its own handle, one, and spawns that handle's listener. A dropped
\* call never has a handle, a listener or an event.
C4_DroppedWhenLocked ==
  /\ [](\A c \in Starts :
          spc[c] \in {"idle", "dropped"} =>
            /\ playback_task # c
            /\ lpc[c] = "none"
            /\ events[c] = <<>>
            /\ stops[c] = 0)
  /\ [][\A c \in Starts :
          /\ spc[c] = "dropped" => spc'[c] = "dropped"
          /\ (spc[c] = "idle" /\ StartStep(c)) =>
               IF state_lock # Free
               THEN /\ spc'[c] = "dropped"
                    /\ UNCHANGED <<playhead_position, playback_task,
                                   state_lock, start_frame_number, prev, dpc,
                                   lpc, frame_number, events, emitted_n,
                                   received, stops, on_state_change>>
               ELSE /\ spc'[c] = "constructing"
                    /\ state_lock' = ByStart(c)
                    /\ UNCHANGED <<playhead_position, playback_task, lpc>>
          /\ (spc[c] = "constructing" /\ StartStep(c)) =>
               /\ state_lock = ByStart(c)
               /\ playback_task' = c
               /\ lpc' = [lpc EXCEPT ![c] = "recv"]]_vars

\* The second call was dropped while the first was constructing; the first
\* installed its handle.
C4_Witness ==
  /\ spc[1] = "done"
  /\ spc[2] = "dropped"
  /\ playback_task = 1
  /\ lpc[1] # "none"
  /\ lpc[2] = "none"

\* The events of a sequence that are Frame events, and the callback's
\* invocations made by the listener of handle h.
IsFrame(e) == e.kind = "Frame"
Frames(seq) == SelectSeq(seq, IsFrame)
CallbacksBy(h) ==
  LET By(x) == x.by = h IN SelectSeq(on_state_change, By)
Last(seq) == seq[Len(seq)]

\* C5: the listener of h has invoked the callback once for every Frame event
\* it received (but the one it is still applying), in order, and each
\* invocation saw the cursor at that event's frame number; while the listener
\* is between its write and the guard's drop it holds the lock and the cursor
\* is its frame number; receiving Start or Stop changes neither the cursor
\* nor the callback's invocations, and takes no lock.
C5_FrameSetsCursorAndNotifies ==
  /\ [](\A h \in Handles :
          /\ Len(CallbacksBy(h)) + (IF lpc[h] \in {"lock", "emit"} THEN 1 ELSE 0)
               = Len(Frames(received[h]))
          /\ \A k \in 1..Len(CallbacksBy(h)) :
               CallbacksBy(h)[k].state.playhead_position
                 = Frames(received[h])[k].n
          /\ lpc[h] \in {"emit", "unlock"} =>
               /\ state_lock = ByListener(h)
               /\ playhead_position = frame_number[h]
               /\ frame_number[h] = Last(Frames(received[h])).n)
  /\ [][\A h \in Handles :
          (received'[h] # received[h] /\ ~IsFrame(Last(received'[h]))) =>
            /\ UNCHANGED <<playhead_position, playback_task, state_lock,
                           on_state_change>>
            /\ lpc'[h] \in {"recv", "done"}]_vars

\* One listener has applied Frame(1) and then Frame(2), with two callbacks.
C5_Witness ==
  \E h \in Handles :
    /\ received[h] = <<Frame(1), Frame(2)>>
    /\ Len(on_state_change) = 2
    /\ playhead_position = 2
    /\ lpc[h] = "recv"

\* A step of dispose call d.
DisposeStep(d) == dpc'[d] # dpc[d]

LastObserved ==
  IF on_state_change = <<>>
  THEN [playhead_position |-> 0, playback_task |-> 0]
  ELSE Last(on_state_change).state

\* C7 as stated: whenever the lock is free, the callback has seen the state as
\* it is now, cursor and playback slot.
C7_EveryMutationNotified == state_lock = Free => LastObserved = EditorState

\* C7 as amended: whenever the lock is free the callback has seen the cursor
\* as it is now; the callback is handed the state as it is at that moment,
\* under the lock; a step that changes the playback slot calls no callback.
C7_CursorMutationNotified ==
  /\ [](state_lock = Free =>
          LastObserved.playhead_position = playhead_position)
  /\ [](\A h \in Handles :
          lpc[h] = "unlock" =>
            /\ state_lock = ByListener(h)
            /\ on_state_change # <<>>
            /\ Last(on_state_change) = [by |-> h, state |-> EditorState])
  /\ [][playback_task' # playback_task =>
          on_state_change' = on_state_change]_vars

\* The callback saw a cursor change, and has not seen the handle now in the
\* slot.
C7_Witness ==
  /\ state_lock = Free
  /\ on_state_change # <<>>
  /\ LastObserved.playhead_position = playhead_position
  /\ playhead_position # 0
  /\ LastObserved.playback_task # playback_task

\* ------------------------------------------------------------ frame stream
\* The chunks of a sequence.
Range(seq) == {seq[i] : i \in 1..Len(seq)}
Increasing(seq) == \A i, j \in 1..Len(seq) : i < j => seq[i] < seq[j]
Relaying(v) == vpc[v] \in {"select", "send"}

C9_OneViewerRelays ==
  /\ \A v, w \in Viewers : Relaying(v) /\ Relaying(w) => v = w
  /\ \A v \in Viewers :
       /\ Relaying(v) <=> rx_lock = v
       /\ vpc[v] \in {"idle", "lock"} => delivered[v] = <<>>
       /\ \A w \in Viewers :
            vpc[v] = "send" /\ v # w => chunk[v] \notin Range(delivered[w])

\* The second connection waits for the lock with a chunk on the channel while
\* the first is relaying.
C9_Witness ==
  /\ Relaying(1)
  /\ delivered[1] # <<>>
  /\ vpc[2] = "lock"
  /\ frame_rx # <<>>

\* ----------------------------------------------------------- fresh session
\* No start_playback has acquired the lock and no Frame event was processed.
Fresh ==
  /\ \A c \in Starts : spc[c] \in {"idle", "dropped"}
  /\ \A h \in Handles : lpc[h] \notin {"emit", "unlock"}
  /\ on_state_change = <<>>

\* C10 as stated: in a fresh session the cursor is 0, the playback slot is
\* empty and the in-flight render flag is false.
C10_FreshStateAndFlag ==
  Fresh => playhead_position = 0 /\ playback_task = 0 /\ ~rendering

\* C10 as amended: in a fresh session the cursor is 0 and the playback slot is
\* empty; the in-flight render flag is false until a spawned render task has
\* started.
C10_FreshState ==
  /\ Fresh => playhead_position = 0 /\ playback_task = 0
  /\ (\A r \in Renders : rpc[r] \in {"idle", "spawned"}) => ~rendering

\* A fresh session after a dispose, with a render task running.
C10_Witness ==
  /\ Fresh
  /\ dpc[1] = "done"
  /\ rendering

\* ------------------------------------------------------- no replay buffer
\* C11: a viewer receives only chunks the renderer pushed after the viewer's
\* connection was made; a chunk pushed earlier is never delivered to it.
C11_OnlyChunksPushedAfterConnect ==
  \A v \in Viewers :
    \A k \in Range(delivered[v]) : k > pushed_at_connect[v]

\* ------------------------------------------------ render task, frame found
\* Fairness of the render task: a spawned task is scheduled, and the decoder
\* and renderer calls it awaits complete.
RenderTaskStep(r) ==
  \/ RenderTaskStart(r)
  \/ \E some \in BOOLEAN : RenderTaskScreen(r, some)
  \/ \E some \in BOOLEAN : RenderTaskCamera(r, some)
  \/ RenderTaskFinish(r)

FairRender == \A r \in Renders : WF_vars(RenderTaskStep(r))

\* Fairness of the session-state tasks: a call that holds or awaits the state
\* lock goes on (playback construction completes, the callback returns, the
\* listener task is scheduled), and a waiter gets the lock when it stays
\* free.
FairState ==
  /\ \A d \in Disposes : WF_vars(DisposeLock(d)) /\ WF_vars(DisposeTake(d))
  /\ \A c \in Starts :
       WF_vars(StartPlaybackInstall(c)) /\ WF_vars(StartPlaybackStopPrev(c))
  /\ \A h \in Handles :
       /\ WF_vars(ListenerReceive(h))
       /\ WF_vars(ModifyAndEmitModify(h))
       /\ WF_vars(ModifyAndEmitEmit(h))
       /\ WF_vars(ModifyAndEmitUnlock(h))

\* The render-frame path alone, with its fairness.
FairSpecRender == Init /\ [][NextRender]_vars /\ FairRender

\* The session state alone, with its fairness. The frame number a Frame
\* event carries has no part in who waits for whom: the handles emit Start,
\* Frame(1) and Stop.
LiveEvent == {Start, Frame(1), Stop}

NextStateLive ==
  \/ \E d \in Disposes : DisposeCall(d)
  \/ \E d \in Disposes : DisposeLock(d)
  \/ \E d \in Disposes : DisposeTake(d)
  \/ \E c \in Starts : StartPlaybackTryLock(c)
  \/ \E c \in Starts : StartPlaybackInstall(c)
  \/ \E c \in Starts : StartPlaybackStopPrev(c)
  \/ \E h \in Handles, ev \in LiveEvent : PlaybackEmit(h, ev)
  \/ \E h \in Handles : ListenerReceive(h)
  \/ \E h \in Handles : ModifyAndEmitModify(h)
  \/ \E h \in Handles : ModifyAndEmitEmit(h)
  \/ \E h \in Handles : ModifyAndEmitUnlock(h)

FairSpecState == Init /\ [][NextStateLive]_vars /\ FairState

\* C12: once the screen decoder has returned a frame, the task goes to the
\* composition whether or not a camera decoder exists or returns a frame,
\* invokes it once and clears the flag when it returns; the task always gets
\* there, and a try_render_frame made while the flag is false is accepted.
C12_HitRendersOnceAndClears ==
  /\ [][\A r \in Renders :
          /\ rpc[r] = "screen" /\ rpc'[r] \notin {"screen", "miss"}
               => rpc'[r] = IF camera_decoder THEN "camera" ELSE "render"
          /\ rpc[r] = "camera" /\ rpc'[r] # "camera" => rpc'[r] = "render"
          /\ rpc[r] = "render" /\ rpc'[r] # "render"
               => rpc'[r] = "done" /\ ~rendering'
          /\ rpc[r] = "done" => rpc'[r] = "done"
          /\ rpc[r] = "idle" /\ rpc'[r] # "idle" /\ ~rendering
               => rpc'[r] = "spawned"]_vars
  /\ \A r \in Renders :
       rpc[r] \in {"camera", "render"} ~> (rpc[r] = "done")

\* A task rendered although the camera decoder had no frame and cleared the
\* flag, and the next request was accepted.
C12_Witness ==
  /\ camera_decoder
  /\ ~camera_frame[1]
  /\ rpc[1] = "done"
  /\ ~rendering
  /\ rpc[2] = "spawned"

\* ------------------------------------------------- order of cursor updates
\* C13: the cursor updates made for one handle are applied in the order the
\* handle emitted its Frame events: the k-th update and callback of its
\* listener carry the k-th Frame it emitted, and the update the listener is
\* about to make is for the next one.
C13_AppliedInEmissionOrder ==
  \A h \in Handles :
    LET fr == Frames(emitted[h])
        cb == CallbacksBy(h)
    IN  /\ Len(cb) <= Len(fr)
        /\ \A k \in 1..Len(cb) : cb[k].state.playhead_position = fr[k].n
        /\ lpc[h] = "lock"
             => /\ Len(cb) < Len(fr)
                /\ frame_number[h] = fr[Len(cb) + 1].n

\* One handle emitted Frame(2) then Frame(1) and both were applied.
C13_Witness ==
  /\ emitted[1] = <<Frame(2), Frame(1)>>
  /\ Len(CallbacksBy(1)) = 2
  /\ playhead_position = 1

\* ------------------------------------------------------- mutual exclusion
\* The calls and listeners that are between acquiring the state lock and
\* releasing it.
Holders ==
  {ByStart(c) : c \in {x \in Starts : spc[x] = "constructing"}}
    \cup {ByDispose(d) : d \in {x \in Disposes : dpc[x] = "held"}}
    \cup {ByListener(h) : h \in {x \in Handles : lpc[x] \in {"emit", "unlock"}}}

\* C14: at most one of a dispose, a start_playback between acquiring and
\* releasing the lock, and a modify_and_emit_state holds the state lock, so
\* their mutations exclude one another; the callback runs with the lock
\* held, on the cursor its listener has just written, and never while
\* another callback is running.
C14_OneHolder ==
  /\ Holders = IF state_lock = Free THEN {} ELSE {state_lock}
  /\ \A h \in Handles :
       lpc[h] = "emit" => /\ state_lock = ByListener(h)
                          /\ playhead_position = frame_number[h]
                          /\ \A g \in Handles \ {h} : lpc[g] # "emit"

\* A listener is about to call the callback while a dispose waits for the
\* lock and the listener has a further event pending.
C14_Witness ==
  /\ lpc[1] = "emit"
  /\ dpc[1] = "lock"
  /\ events[1] # <<>>

\* ---------------------------------------------------- end of the listener
\* C15: a listener task ends only by taking Stop from its own handle, not by
\* stop(), displacement or dispose: it has ended exactly when it has received
\* Stop, it processes no event afterwards, and a handle that has emitted Stop
\* has its listener end; with no Stop emitted the listener never ends.
C15_EndsOnlyOnStop ==
  /\ [](\A h \in Handles :
          /\ lpc[h] = "done" <=> Stopped(h)
          /\ Stopped(h) => Last(received[h]) = Stop
          /\ lpc[h] = "done" => Stop \in Range(emitted[h]))
  /\ [][\A h \in Handles :
          lpc[h] = "done" => /\ lpc'[h] = "done"
                             /\ received'[h] = received[h]]_vars
  /\ \A h \in Handles :
       (Stop \in Range(emitted[h])) ~> (lpc[h] = "done")

\* A displaced and stopped handle's listener applied a Frame after stop()
\* and ended when it received Stop.
C15_Witness ==
  /\ stops[1] = 1
  /\ received[1] = <<Frame(1), Stop>>
  /\ lpc[1] = "done"
  /\ playhead_position = 1

\* -------------------------------------- render path and the session state
\* A step of the render-frame path: a request, or a step of a render task.
RenderStep ==
  rpc' # rpc \/ rendering' # rendering \/ camera_frame' # camera_frame

\* C16: the render-frame path leaves the session state as it is: no step of
\* try_render_frame or of a render task changes the cursor or the playback
\* slot, takes or releases the state lock, or invokes the callback.
C16_RenderLeavesStateUnchanged ==
  [][RenderStep => UNCHANGED stateVars]_vars

\* A frame was rendered while a playback was installed and its listener had
\* moved the cursor.
C16_Witness ==
  /\ rpc[1] = "done"
  /\ playback_task = 1
  /\ playhead_position # 0
  /\ on_state_change # <<>>

\* ---------------------------------------------------- start frame number
\* C17: the start frame number of a new playback is the cursor read under the
\* lock, and the lock is held from that read until the handle is installed:
\* the cursor keeps the value read, and when the handle is installed its
\* start frame number is the current cursor, also when the listener of the
\* previous playback has a Frame event waiting to be applied.
C17_StartsAtCursor ==
  /\ [](\A c \in Starts :
          spc[c] = "constructing"
            => /\ state_lock = ByStart(c)
               /\ start_frame_number[c] = playhead_position)
  /\ [][\A c \in Starts :
          spc[c] = "constructing" /\ spc'[c] = "installed"
            => /\ playback_task' = c
               /\ start_frame_number'[c] = playhead_position']_vars

\* A second playback is being constructed while the listener of the first
\* waits for the lock with a Frame that would move the cursor.
C17_Witness ==
  /\ spc[2] = "constructing"
  /\ lpc[1] = "lock"
  /\ frame_number[1] # playhead_position
  /\ playhead_position # 0

\* ------------------------------------------------- stop() of every handle
\* No start_playback and no dispose is in progress.
Quiescent ==
  /\ \A c \in Starts : spc[c] \in {"idle", "done", "dropped"}
  /\ \A d \in Disposes : dpc[d] \in {"idle", "done"}

\* C18: a handle removed from the playback slot, superseded by a new
\* playback or taken by dispose, is sent stop() once; a handle still in the
\* slot has not been sent stop(); a removed handle not yet stopped is the one
\* a start_playback in progress is about to stop, so when no start_playback
\* or dispose is in progress every handle made, except the one in the slot,
\* has been stopped.
C18_RemovedStoppedOnce ==
  \A h \in Handles :
    /\ stops[h] <= 1
    /\ ~Started(h) \/ playback_task = h => stops[h] = 0
    /\ Started(h) /\ playback_task # h /\ stops[h] = 0
         => \E c \in Starts : spc[c] = "installed" /\ prev[c] = h
    /\ Quiescent /\ Started(h) /\ playback_task # h => stops[h] = 1

\* Two playbacks were started and no call is in progress: the first handle
\* was stopped once, its listener still runs, and the second is in the slot.
C18_Witness ==
  /\ Quiescent
  /\ playback_task = 2
  /\ stops = <<1, 0>>
  /\ lpc[1] = "recv"
  /\ state_lock = Free

\* ------------------------------------------------ who drives the cursor
\* C19 as stated: only the handle that is in the playback slot drives the
\* cursor: whenever a listener writes the cursor or calls the callback, its
\* handle is the one in the slot.
C19_OnlySlotHandleDrives ==
  /\ \A h \in Handles : lpc[h] \in {"emit", "unlock"} => playback_task = h
  /\ \A i \in 1..Len(on_state_change) :
       on_state_change[i].state.playback_task = on_state_change[i].by

\* C19 as amended: the cursor is driven by the listeners of the handles that
\* were installed and have not yet had their Stop consumed, in the slot or
\* not: the cursor changes only in a listener's update, a listener updates
\* only between its handle's installation and its Stop, and when its
\* callback runs the slot holds its handle, a later one, or none.
C19_UnstoppedHandlesDrive ==
  /\ [](/\ \A h \in Handles :
             lpc[h] \in {"lock", "emit", "unlock"}
               => Started(h) /\ ~Stopped(h)
        /\ \A i \in 1..Len(on_state_change) :
             LET x == on_state_change[i]
             IN  /\ Started(x.by)
                 /\ x.state.playback_task = 0
                      \/ x.state.playback_task >= x.by)
  /\ [][playhead_position' # playhead_position
          => \E h \in Handles : /\ lpc[h] = "lock"
                                /\ lpc'[h] = "emit"
                                /\ state_lock' = ByListener(h)
                                /\ playhead_position' = frame_number[h]]_vars

\* The listener of the first handle moved the cursor and called the callback
\* when the second handle was already in the slot.
C19_Witness ==
  /\ on_state_change # <<>>
  /\ Last(on_state_change).by = 1
  /\ Last(on_state_change).state.playback_task = 2
  /\ playhead_position # 0

\* ------------------------------------------------------------ no deadlock
\* C20: the state lock never deadlocks: every holder releases it (a
\* start_playback when the construction completes and the handle is
\* installed, a dispose after the take, a listener after the callback), and
\* every dispose and every listener update waiting for the lock gets it.
C20_LockIsReleasedAndServed ==
  /\ (state_lock # Free) ~> (state_lock = Free)
  /\ \A d \in Disposes : (dpc[d] = "lock") ~> (dpc[d] = "held")
  /\ \A h \in Handles : (lpc[h] = "lock") ~> (lpc[h] = "emit")

\* A dispose waits for the lock that a listener, back from the callback, is
\* about to release.
C20_Witness ==
  /\ dpc[1] = "lock"
  /\ lpc[1] = "unlock"
  /\ state_lock = ByListener(1)
====
